---- MODULE Spec2Model ----
(***************************************************************************)
(* A model of the CVSS engine of the rustsec repository (crate cvss) and   *)
(* of its callers: the metric-kind registry (metric.rs), the metric value  *)
(* types (v3/temporal/e.rs, v3/environmental/ar.rs, v4/base/av.rs,         *)
(* v4/base/ac.rs), the Environmental aggregate with its vector-string      *)
(* codec and score engine (v3/environmental.rs), and the advisory updater  *)
(* that polls the NVD API (admin/src/updater.rs).                          *)
(*                                                                         *)
(* Text is a sequence of one-character strings.  An Option is the level's  *)
(* name or "Absent".  An f64 is a fixed-point integer counting 10^-8       *)
(* (see Fx), every product truncated to that grid.                         *)
(***************************************************************************)
EXTENDS Integers, Sequences, FiniteSets, TLC

VARIABLES
    \* metric-kind registry (metric.rs)
    regKind,      \* the MetricType handed to name()
    regStr,       \* the text handed to from_str()
    regOp,        \* which registry operation has run
    regName,      \* result of name()
    regParsed,    \* result of from_str()
    \* vector-string codec (v3/environmental.rs)
    input,        \* the vector string handed to from_str()
    missingArm,   \* what this build does for a kind the match has no arm for
    codecOp,      \* position in parse -> to_string -> parse
    parsed,       \* result of from_str(input)
    text,         \* result of to_string(parsed)
    reparsed,     \* result of from_str(text)
    \* score engine (v3/environmental.rs)
    aggregate,    \* the aggregate that is scored
    scoreOp,      \* which method has run
    exploitabilityOut,  \* result of exploitability()
    impactOut,    \* result of impact()
    scoreOut,     \* result of score()
    severityOut,  \* result of severity()
    \* score rounding (Score::roundup)
    roundIn,      \* the value handed to roundup()
    roundOp,      \* how often roundup() has been applied
    roundOut,     \* roundup(roundIn)
    roundTwice,   \* roundup(roundup(roundIn))
    \* metric value types (e.rs, ar.rs, av.rs, ac.rs)
    mvType,       \* the value type at hand
    mvLevel,      \* a level of that type
    mvOther,      \* a second level of that type, compared with the first
    mvStr,        \* the text handed to from_str()
    mvBase,       \* a Base score
    mvOp,         \* which operation has run
    mvText,       \* result of as_str()
    mvParsed,     \* result of from_str()
    mvScore,      \* result of score()
    mvLess,       \* result of mvLevel < mvOther
    mvDefault,    \* result of default()
    mvE,          \* the Option<ExploitCodeMaturity> that scales mvBase
    mvScaled,     \* mvBase scaled by the weight of mvE
    \* advisory updater (admin/src/updater.rs)
    upc,          \* where update_advisories is
    status,       \* the last status_ok! / status_err! message
    remaining,    \* the advisories the loop has not reached yet
    advisory,     \* the advisory of the current loop iteration
    cve_ids,      \* its CVE ids: aliases, then its own id
    idx,          \* the position in cve_ids of the next id to fetch
    nvd_scores,   \* HashSet<cvss::v3::Base>
    references,   \* Vec<Url>
    broken_cve_aliases,  \* Vec<Id>
    printed,      \* the lines printed for the current advisory
    requested,    \* the ids requested from NVD for the current advisory
    answers,      \* what NVD answered to each of them
    failed,       \* a retrieval has failed (fetch_cve returned Err) in this run
    sleptMs,      \* milliseconds slept since the last request (-1: no request yet)
    lastGap,      \* milliseconds slept between the last two requests (-1: not two yet)
    panicAt       \* the call that panicked

regVars == <<regKind, regStr, regOp, regName, regParsed>>
codecVars == <<input, missingArm, codecOp, parsed, text, reparsed>>
scoreVars == <<aggregate, scoreOp, exploitabilityOut, impactOut, scoreOut, severityOut>>
roundVars == <<roundIn, roundOp, roundOut, roundTwice>>
valueVars ==
    <<mvType, mvLevel, mvOther, mvStr, mvBase, mvOp, mvText, mvParsed, mvScore,
      mvLess, mvDefault, mvE, mvScaled>>
updaterVars ==
    <<upc, status, remaining, advisory, cve_ids, idx, nvd_scores, references,
      broken_cve_aliases, printed, requested, answers, failed, sleptMs, lastGap,
      panicAt>>
vars == <<regVars, codecVars, scoreVars, roundVars, valueVars, updaterVars>>

\* What an operation of one component leaves alone: the other components.
regOthers == <<codecVars, scoreVars, roundVars, valueVars, updaterVars>>
codecOthers == <<regVars, scoreVars, roundVars, valueVars, updaterVars>>
scoreOthers == <<regVars, codecVars, roundVars, valueVars, updaterVars>>
roundOthers == <<regVars, codecVars, scoreVars, valueVars, updaterVars>>
valueOthers == <<regVars, codecVars, scoreVars, roundVars, updaterVars>>
updaterOthers == <<regVars, codecVars, scoreVars, roundVars, valueVars>>

(***************************************************************************)
(* Text helpers: str::split, str::to_ascii_uppercase.                      *)
(***************************************************************************)
LowerCase ==
    <<"a","b","c","d","e","f","g","h","i","j","k","l","m",
      "n","o","p","q","r","s","t","u","v","w","x","y","z">>

UpperCase ==
    <<"A","B","C","D","E","F","G","H","I","J","K","L","M",
      "N","O","P","Q","R","S","T","U","V","W","X","Y","Z">>

\* u8::to_ascii_uppercase: a..z are mapped to A..Z, every other byte is kept.
CharToUpper(ch) ==
    IF \E n \in DOMAIN LowerCase : LowerCase[n] = ch
    THEN UpperCase[CHOOSE n \in DOMAIN LowerCase : LowerCase[n] = ch]
    ELSE ch

\* to_ascii_uppercase that keeps every byte.
to_ascii_uppercase_noop(str) == str

\* str::to_ascii_uppercase
to_ascii_uppercase(str) == [n \in DOMAIN str |-> CharToUpper(str[n])]

\* Index of the first sep in str, 0 when there is none.
FindChar(str, sep) ==
    IF \E n \in DOMAIN str : str[n] = sep
    THEN CHOOSE n \in DOMAIN str :
             str[n] = sep /\ \A m \in 1..(n - 1) : str[m] # sep
    ELSE 0

\* str::split(sep), collected: the maximal pieces between separators; a text
\* without separator (the empty text included) gives one piece.
RECURSIVE split(_, _)
split(str, sep) ==
    LET at == FindChar(str, sep) IN
    IF at = 0 THEN <<str>>
    ELSE <<SubSeq(str, 1, at - 1)>> \o split(SubSeq(str, at + 1, Len(str)), sep)

\* Concatenation of the pieces, sep between two neighbours.
RECURSIVE Join(_, _)
Join(pieces, sep) ==
    IF Len(pieces) = 0 THEN <<>>
    ELSE IF Len(pieces) = 1 THEN pieces[1]
    ELSE pieces[1] \o <<sep>> \o Join(Tail(pieces), sep)

(***************************************************************************)
(* Metric kind registry: metric.rs                                         *)
(***************************************************************************)
MetricTypes ==
    {"A", "AC", "AV", "C", "I", "PR", "S", "UI", "E", "RL", "RC", "AR", "IR", "CR"}

\* MetricType::name
MetricType_name(kind) ==
    CASE kind = "A"  -> <<"A">>
      [] kind = "AC" -> <<"A","C">>
      [] kind = "AV" -> <<"A","V">>
      [] kind = "C"  -> <<"C">>
      [] kind = "I"  -> <<"I">>
      [] kind = "PR" -> <<"P","R">>
      [] kind = "S"  -> <<"S">>
      [] kind = "UI" -> <<"U","I">>
      [] kind = "E"  -> <<"E">>
      [] kind = "RL" -> <<"R","L">>
      [] kind = "RC" -> <<"R","C">>
      [] kind = "AR" -> <<"A","R">>
      [] kind = "IR" -> <<"I","R">>
      [] kind = "CR" -> <<"C","R">>

KindOk(kind) == [ok |-> TRUE, kind |-> kind, err |-> "", name |-> <<>>]
KindErr(err, name) == [ok |-> FALSE, kind |-> "", err |-> err, name |-> name]

\* from_str that upper-cases its argument before the match.
MetricType_from_str_any_case(str) ==
    LET upper == to_ascii_uppercase(str) IN
        CASE upper = <<"A">>     -> KindOk("A")
          [] upper = <<"A","C">> -> KindOk("AC")
          [] upper = <<"A","V">> -> KindOk("AV")
          [] upper = <<"C">>     -> KindOk("C")
          [] upper = <<"I">>     -> KindOk("I")
          [] upper = <<"P","R">> -> KindOk("PR")
          [] upper = <<"S">>     -> KindOk("S")
          [] upper = <<"U","I">> -> KindOk("UI")
          [] upper = <<"E">>     -> KindOk("E")
          [] upper = <<"R","L">> -> KindOk("RL")
          [] upper = <<"R","C">> -> KindOk("RL")
          [] upper = <<"A","R">> -> KindOk("AR")
          [] upper = <<"I","R">> -> KindOk("IR")
          [] upper = <<"C","R">> -> KindOk("CR")
          [] OTHER             -> KindErr("UnknownMetric", str)

\* impl FromStr for MetricType
MetricType_from_str(str) ==
    CASE str = <<"A">>     -> KindOk("A")
      [] str = <<"A","C">> -> KindOk("AC")
      [] str = <<"A","V">> -> KindOk("AV")
      [] str = <<"C">>     -> KindOk("C")
      [] str = <<"I">>     -> KindOk("I")
      [] str = <<"P","R">> -> KindOk("PR")
      [] str = <<"S">>     -> KindOk("S")
      [] str = <<"U","I">> -> KindOk("UI")
      [] str = <<"E">>     -> KindOk("E")
      [] str = <<"R","L">> -> KindOk("RL")
      [] str = <<"R","C">> -> KindOk("RL")
      [] str = <<"A","R">> -> KindOk("AR")
      [] str = <<"I","R">> -> KindOk("IR")
      [] str = <<"C","R">> -> KindOk("CR")
      [] OTHER             -> KindErr("UnknownMetric", str)

\* Texts handed to the registry: the acronyms, their lower- and mixed-case
\* forms, the empty text and texts that name no kind.
AcronymInputs ==
    {MetricType_name(k) : k \in MetricTypes}
    \cup {<<"a">>, <<"a","v">>, <<"A","v">>, <<"r","c">>, <<"e">>,
          <<>>, <<"Z","Z">>, <<"M","A","V">>, <<"A"," ">>}

NoKind == KindErr("", <<>>)

RegistryIdle ==
    /\ regKind = "A" /\ regStr = <<>> /\ regOp = "idle"
    /\ regName = <<>> /\ regParsed = NoKind

RegistryInit ==
    /\ regKind \in MetricTypes
    /\ regStr \in AcronymInputs
    /\ regOp = "new"
    /\ regName = <<>>
    /\ regParsed = NoKind

\* kind.name()
Name ==
    /\ regOp = "new"
    /\ regName' = MetricType_name(regKind)
    /\ regOp' = "name"
    /\ UNCHANGED <<regKind, regStr, regParsed>>
    /\ UNCHANGED regOthers

\* kind.name().parse::<MetricType>()
ParseName ==
    /\ regOp = "name"
    /\ regParsed' = MetricType_from_str(regName)
    /\ regOp' = "parsed_name"
    /\ UNCHANGED <<regKind, regStr, regName>>
    /\ UNCHANGED regOthers

\* str.parse::<MetricType>()
ParseStr ==
    /\ regOp = "new"
    /\ regParsed' = MetricType_from_str(regStr)
    /\ regOp' = "parsed_str"
    /\ UNCHANGED <<regKind, regStr, regName>>
    /\ UNCHANGED regOthers

(***************************************************************************)
(* Metric value types.  Absent is Option::None.                            *)
(***************************************************************************)
Absent == "Absent"

\* An f64 is the integer that counts 10^-8: Fx(85, 100) is 0.85 (den is a
\* power of ten that divides 10^8).
FxOne == 10 ^ 8
Fx(num, den) == num * (FxOne \div den)

MetricOk(level) == [ok |-> TRUE, level |-> level, err |-> "", kind |-> "", value |-> <<>>]
MetricErr(kind, value) ==
    [ok |-> FALSE, level |-> Absent, err |-> "InvalidMetric", kind |-> kind, value |-> value]

\* enum ExploitCodeMaturity, in declaration order (the derived Ord)
ExploitCodeMaturity == <<"NotDefined", "High", "Functional", "ProofOfConcept", "Unproven">>

\* ExploitCodeMaturity::score
ExploitCodeMaturity_score(level) ==
    CASE level = "NotDefined"     -> Fx(100, 100)
      [] level = "High"           -> Fx(100, 100)
      [] level = "Functional"     -> Fx(97, 100)
      [] level = "ProofOfConcept" -> Fx(94, 100)
      [] level = "Unproven"       -> Fx(91, 100)

\* ExploitCodeMaturity::as_str
ExploitCodeMaturity_as_str(level) ==
    CASE level = "NotDefined"     -> <<"X">>
      [] level = "High"           -> <<"H">>
      [] level = "Functional"     -> <<"F">>
      [] level = "ProofOfConcept" -> <<"P">>
      [] level = "Unproven"       -> <<"U">>

\* from_str that takes every unknown letter for Not Defined.
ExploitCodeMaturity_from_str_lenient(str) ==
    CASE str = <<"X">> -> MetricOk("NotDefined")
      [] str = <<"H">> -> MetricOk("High")
      [] str = <<"F">> -> MetricOk("Functional")
      [] str = <<"P">> -> MetricOk("ProofOfConcept")
      [] str = <<"U">> -> MetricOk("Unproven")
      [] OTHER         -> MetricOk("NotDefined")

\* impl FromStr for ExploitCodeMaturity
ExploitCodeMaturity_from_str(str) ==
    CASE str = <<"X">> -> MetricOk("NotDefined")
      [] str = <<"H">> -> MetricOk("High")
      [] str = <<"F">> -> MetricOk("Functional")
      [] str = <<"P">> -> MetricOk("ProofOfConcept")
      [] str = <<"U">> -> MetricOk("Unproven")
      [] OTHER         -> MetricErr("E", str)

\* enum AvailabilityRequirement, in declaration order (the derived Ord)
AvailabilityRequirement == <<"NotDefined", "High", "Medium", "Low">>

\* AvailabilityRequirement::score
AvailabilityRequirement_score(level) ==
    CASE level = "NotDefined" -> Fx(10, 10)
      [] level = "High"       -> Fx(15, 10)
      [] level = "Medium"     -> Fx(10, 10)
      [] level = "Low"        -> Fx(5, 10)

\* AvailabilityRequirement::as_str
AvailabilityRequirement_as_str(level) ==
    CASE level = "NotDefined" -> <<"X">>
      [] level = "High"       -> <<"H">>
      [] level = "Medium"     -> <<"M">>
      [] level = "Low"        -> <<"L">>

\* impl FromStr for AvailabilityRequirement
AvailabilityRequirement_from_str(str) ==
    CASE str = <<"X">> -> MetricOk("NotDefined")
      [] str = <<"H">> -> MetricOk("High")
      [] str = <<"M">> -> MetricOk("Medium")
      [] str = <<"L">> -> MetricOk("Low")
      [] OTHER         -> MetricErr("AR", str)

\* enum AttackVector, in declaration order (the derived Ord)
AttackVector == <<"Physical", "Local", "Adjacent", "Network">>

\* score with the weights of Local and Adjacent exchanged.
AttackVector_score_swapped(level) ==
    CASE level = "Physical" -> Fx(20, 100)
      [] level = "Local"    -> Fx(62, 100)
      [] level = "Adjacent" -> Fx(55, 100)
      [] level = "Network"  -> Fx(85, 100)

\* AttackVector::score
AttackVector_score(level) ==
    CASE level = "Physical" -> Fx(20, 100)
      [] level = "Local"    -> Fx(55, 100)
      [] level = "Adjacent" -> Fx(62, 100)
      [] level = "Network"  -> Fx(85, 100)

\* AttackVector::as_str
AttackVector_as_str(level) ==
    CASE level = "Physical" -> <<"P">>
      [] level = "Local"    -> <<"L">>
      [] level = "Adjacent" -> <<"A">>
      [] level = "Network"  -> <<"N">>

\* impl FromStr for AttackVector
AttackVector_from_str(str) ==
    CASE str = <<"P">> -> MetricOk("Physical")
      [] str = <<"L">> -> MetricOk("Local")
      [] str = <<"A">> -> MetricOk("Adjacent")
      [] str = <<"N">> -> MetricOk("Network")
      [] OTHER         -> MetricErr("AV", str)

\* enum AttackComplexity, in declaration order (the derived Ord)
AttackComplexity == <<"High", "Low">>

\* AttackComplexity::score
AttackComplexity_score(level) ==
    CASE level = "High" -> Fx(44, 100)
      [] level = "Low"  -> Fx(77, 100)

\* AttackComplexity::as_str
AttackComplexity_as_str(level) ==
    CASE level = "High" -> <<"H">>
      [] level = "Low"  -> <<"L">>

\* impl FromStr for AttackComplexity
AttackComplexity_from_str(str) ==
    CASE str = <<"H">> -> MetricOk("High")
      [] str = <<"L">> -> MetricOk("Low")
      [] OTHER         -> MetricErr("AC", str)

(***************************************************************************)
(* The Base metric value types of v3 that Environmental's methods use for  *)
(* its pr, ui, s, c, i and a fields live in v3/base/, which is not part of *)
(* the sources at hand: their levels, letters and weights are those of the *)
(* published CVSS v3.1 tables the specification refers to.                 *)
(***************************************************************************)
PrivilegesRequired == <<"High", "Low", "None">>

\* PrivilegesRequired::scoped_score
PrivilegesRequired_scoped_score(level, scope_change) ==
    CASE level = "High" -> IF scope_change THEN Fx(50, 100) ELSE Fx(27, 100)
      [] level = "Low"  -> IF scope_change THEN Fx(68, 100) ELSE Fx(62, 100)
      [] level = "None" -> Fx(85, 100)

PrivilegesRequired_as_str(level) ==
    CASE level = "High" -> <<"H">>
      [] level = "Low"  -> <<"L">>
      [] level = "None" -> <<"N">>

UserInteraction == <<"Required", "None">>

\* UserInteraction::score
UserInteraction_score(level) ==
    CASE level = "Required" -> Fx(62, 100)
      [] level = "None"     -> Fx(85, 100)

UserInteraction_as_str(level) ==
    CASE level = "Required" -> <<"R">>
      [] level = "None"     -> <<"N">>

Scope == <<"Unchanged", "Changed">>

\* Scope::is_changed
Scope_is_changed(level) == level = "Changed"

Scope_as_str(level) ==
    CASE level = "Unchanged" -> <<"U">>
      [] level = "Changed"   -> <<"C">>

\* Confidentiality, Integrity and Availability impact share levels and weights.
ImpactLevels == <<"None", "Low", "High">>

\* Confidentiality::score, Integrity::score, Availability::score
Impact_score(level) ==
    CASE level = "None" -> Fx(0, 100)
      [] level = "Low"  -> Fx(22, 100)
      [] level = "High" -> Fx(56, 100)

Impact_as_str(level) ==
    CASE level = "None" -> <<"N">>
      [] level = "Low"  -> <<"L">>
      [] level = "High" -> <<"H">>

Range(seq) == {seq[n] : n \in DOMAIN seq}
Option(seq) == {Absent} \cup Range(seq)

(***************************************************************************)
(* The Environmental aggregate: v3/environmental.rs.  The struct declares  *)
(* minor_version and rl; from_str assigns e; Display and the score methods *)
(* read av, ac, pr, ui, s, c, i, a.  The record holds every field the code *)
(* names.                                                                  *)
(***************************************************************************)
PREFIX == <<"C","V","S","S">>

\* #[derive(Default)]: minor_version 0, every Option None
Environmental_default ==
    [minor_version |-> 0, rl |-> Absent, e |-> Absent,
     av |-> Absent, ac |-> Absent, pr |-> Absent, ui |-> Absent,
     s |-> Absent, c |-> Absent, i |-> Absent, a |-> Absent]

ParseOk(metrics) == [ok |-> TRUE, val |-> metrics, err |-> "", kind |-> "", payload |-> <<>>]
ParseErr(err, kind, payload) ==
    [ok |-> FALSE, val |-> Environmental_default, err |-> err, kind |-> kind,
     payload |-> payload]

\* The closure without its parts.next().is_some() check: further parts are
\* passed over.
ComponentOk_two_or_more(component) == Len(split(component, ":")) >= 2

\* The closure of from_str's map: a component is an (id, value) pair when
\* split(':') gives exactly two parts.
ComponentOk(component) == Len(split(component, ":")) = 2

\* The behaviours a build can give the match of from_str for a kind it has no
\* arm for (the match names MetricType::E alone): the component is passed
\* over, or parsing stops with an error.
MissingArms == {"skip", "fail"}

\* The for loop of from_str over the components after the header.
RECURSIVE ParseMetrics(_, _, _)
ParseMetrics(metrics, components, arm) ==
    IF Len(components) = 0 THEN ParseOk(metrics)
    ELSE
        LET parts == split(components[1], ":")
            id == to_ascii_uppercase(parts[1])
            value == to_ascii_uppercase(parts[2])
            kind == MetricType_from_str(id)
        IN  IF ~kind.ok THEN ParseErr(kind.err, "", kind.name)
            ELSE IF kind.kind = "E" THEN
                LET e == ExploitCodeMaturity_from_str(value) IN
                IF ~e.ok THEN ParseErr(e.err, e.kind, e.value)
                ELSE ParseMetrics([metrics EXCEPT !.e = e.level], Tail(components), arm)
            ELSE IF arm = "skip" THEN ParseMetrics(metrics, Tail(components), arm)
            ELSE ParseErr("NoMatchArm", kind.kind, components[1])

\* VersionMinor with a catch-all arm that accepts the version as 3.1.
VersionMinor_any(version_string) ==
    CASE version_string = <<"3",".","0">> -> 0
      [] OTHER -> 1

\* The match on version_string in from_str: the minor version, -1 for the
\* arm that returns UnsupportedVersion.
VersionMinor(version_string) ==
    CASE version_string = <<"3",".","0">> -> 0
      [] version_string = <<"3",".","1">> -> 1
      [] OTHER -> -1

\* impl FromStr for Environmental
Environmental_from_str(str, arm) ==
    LET component_vec == split(str, "/")
        bad == {n \in DOMAIN component_vec : ~ComponentOk(component_vec[n])}
    IN  IF bad # {} THEN
            ParseErr("InvalidComponent", "",
                     component_vec[CHOOSE n \in bad : \A m \in bad : n <= m])
        ELSE
            LET header == split(component_vec[1], ":")
                id == header[1]
                version_string == header[2]
            IN  IF id # PREFIX THEN ParseErr("InvalidPrefix", "", id)
                ELSE IF VersionMinor(version_string) < 0 THEN
                    ParseErr("UnsupportedVersion", "", version_string)
                ELSE
                    ParseMetrics(
                        [Environmental_default EXCEPT
                            !.minor_version = VersionMinor(version_string)],
                        Tail(component_vec), arm)

\* Display of a usize below ten.
DigitText(n) == <<<<"0">>, <<"1">>, <<"2">>, <<"3">>, <<"4">>,
                  <<"5">>, <<"6">>, <<"7">>, <<"8">>, <<"9">>>>[n + 1]

\* impl fmt::Display of a metric value: "{name}:{as_str}"
MetricText(kind, letter) == MetricType_name(kind) \o <<":">> \o letter

\* write_metrics!: write!(f, "/{}", metric) for a metric that is Some
WriteMetric(kind, letter) == <<"/">> \o MetricText(kind, letter)

\* impl fmt::Display for Environmental
Environmental_to_string(m) ==
    PREFIX \o <<":", "3", ".">> \o DigitText(m.minor_version)
    \o (IF m.av = Absent THEN <<>> ELSE WriteMetric("AV", AttackVector_as_str(m.av)))
    \o (IF m.ac = Absent THEN <<>> ELSE WriteMetric("AC", AttackComplexity_as_str(m.ac)))
    \o (IF m.pr = Absent THEN <<>> ELSE WriteMetric("PR", PrivilegesRequired_as_str(m.pr)))
    \o (IF m.ui = Absent THEN <<>> ELSE WriteMetric("UI", UserInteraction_as_str(m.ui)))
    \o (IF m.s = Absent THEN <<>> ELSE WriteMetric("S", Scope_as_str(m.s)))
    \o (IF m.c = Absent THEN <<>> ELSE WriteMetric("C", Impact_as_str(m.c)))
    \o (IF m.i = Absent THEN <<>> ELSE WriteMetric("I", Impact_as_str(m.i)))
    \o (IF m.a = Absent THEN <<>> ELSE WriteMetric("A", Impact_as_str(m.a)))

(***************************************************************************)
(* The vector strings handed to the codec: a first component and up to     *)
(* MaxComponents further ones, joined by '/'.                              *)
(***************************************************************************)
MaxComponents == 2

HeaderPool ==
    { <<"C","V","S","S",":","3",".","1">>,
      <<"C","V","S","S",":","3",".","0">>,
      <<"C","V","S","S",":","2",".","0">>,
      <<"X","X",":","3",".","1">>,
      <<"c","v","s","s",":","3",".","1">>,
      <<"C","V","S","S">>,
      <<"C","V","S","S",":","3",".","1",":">>,
      <<>> }

ComponentPool ==
    { <<"E",":","H">>, <<"E",":","U">>, <<"e",":","f">>, <<"E",":","Q">>,
      <<"Z","Z",":","N">>, <<"A","V",":","N">>, <<"R","C",":","C">>,
      <<"E">>, <<"E",":","H",":","X">>, <<>> }

ComponentLists ==
    UNION {[1..n -> ComponentPool] : n \in 0..MaxComponents}

Inputs == {Join(<<h>> \o cs, "/") : h \in HeaderPool, cs \in ComponentLists}

NoParse == ParseErr("", "", <<>>)

CodecIdle ==
    /\ input = <<>> /\ missingArm = "skip" /\ codecOp = "idle"
    /\ parsed = NoParse /\ text = <<>> /\ reparsed = NoParse

CodecInit ==
    /\ input \in Inputs
    /\ missingArm \in MissingArms
    /\ codecOp = "new"
    /\ parsed = NoParse
    /\ text = <<>>
    /\ reparsed = NoParse

\* input.parse::<Environmental>()
FromStr ==
    /\ codecOp = "new"
    /\ parsed' = Environmental_from_str(input, missingArm)
    /\ codecOp' = "parsed"
    /\ UNCHANGED <<input, missingArm, text, reparsed>>
    /\ UNCHANGED codecOthers

\* metrics.to_string(), on the aggregate a successful parse returned
Display ==
    /\ codecOp = "parsed"
    /\ parsed.ok
    /\ text' = Environmental_to_string(parsed.val)
    /\ codecOp' = "printed"
    /\ UNCHANGED <<input, missingArm, parsed, reparsed>>
    /\ UNCHANGED codecOthers

\* metrics.to_string().parse::<Environmental>()
Reparse ==
    /\ codecOp = "printed"
    /\ reparsed' = Environmental_from_str(text, missingArm)
    /\ codecOp' = "reparsed"
    /\ UNCHANGED <<input, missingArm, parsed, text>>
    /\ UNCHANGED codecOthers

(***************************************************************************)
(* f64 arithmetic on the 10^-8 grid.                                       *)
(***************************************************************************)
Abs(x) == IF x < 0 THEN -x ELSE x
Min(x, y) == IF x <= y THEN x ELSE y
Limb == 10 ^ 4

\* x * y of two values that are not negative, truncated to the grid; the
\* factors are split in limbs so that no intermediate exceeds 32 bits.
FxMulAbs(x, y) ==
    LET xh == x \div Limb  xl == x % Limb
        yh == y \div Limb  yl == y % Limb
    IN  xh * yh + (xh * yl + xl * yh + (xl * yl) \div Limb) \div Limb

\* x * y
FxMul(x, y) ==
    IF (x < 0) = (y < 0) THEN FxMulAbs(Abs(x), Abs(y))
    ELSE -FxMulAbs(Abs(x), Abs(y))

\* f64::powf(x, n) for a whole n >= 1, by squaring
RECURSIVE FxPow(_, _)
FxPow(x, n) ==
    IF n = 1 THEN x
    ELSE IF n % 2 = 0 THEN FxPow(FxMul(x, x), n \div 2)
    ELSE FxMul(x, FxPow(FxMul(x, x), n \div 2))

(***************************************************************************)
(* Score and Severity live in v3/score.rs and in the crate root, which are *)
(* not part of the sources at hand; they follow sections 4.6 and 4.7 of    *)
(* the specification.                                                      *)
(***************************************************************************)
\* roundup() that truncates the scaled value to a whole number first.
Score_roundup_truncating(x) ==
    LET tenth == FxOne \div 10
        score_int == x \div (FxOne \div 100000)
    IN  IF score_int % 10000 = 0 THEN (score_int \div 10000) * tenth
        ELSE (score_int \div 10000 + 1) * tenth

\* Score::roundup: the value scaled by 100000 and divided by 10000, its
\* ceiling, divided by 10: the smallest multiple of 0.1 that is not below x.
Score_roundup(x) ==
    LET tenth == FxOne \div 10
        tenths == IF x % tenth = 0 THEN x \div tenth ELSE x \div tenth + 1
    IN  tenths * tenth

\* Score::severity
Score_severity(x) ==
    IF x < Fx(1, 10) THEN "None"
    ELSE IF x < Fx(40, 10) THEN "Low"
    ELSE IF x < Fx(70, 10) THEN "Medium"
    ELSE IF x < Fx(90, 10) THEN "High"
    ELSE "Critical"

(***************************************************************************)
(* The score engine of Environmental: v3/environmental.rs                  *)
(***************************************************************************)
\* Environmental::is_scope_changed
is_scope_changed(m) == IF m.s = Absent THEN FALSE ELSE Scope_is_changed(m.s)

\* Environmental::exploitability
exploitability(m) ==
    LET av_score == IF m.av = Absent THEN 0 ELSE AttackVector_score(m.av)
        ac_score == IF m.ac = Absent THEN 0 ELSE AttackComplexity_score(m.ac)
        ui_score == IF m.ui = Absent THEN 0 ELSE UserInteraction_score(m.ui)
        pr_score == IF m.pr = Absent THEN 0
                    ELSE PrivilegesRequired_scoped_score(m.pr, is_scope_changed(m))
    IN  FxMul(FxMul(FxMul(FxMul(Fx(822, 100), av_score), ac_score), pr_score), ui_score)

\* Environmental::impact
impact(m) ==
    LET c_score == IF m.c = Absent THEN 0 ELSE Impact_score(m.c)
        i_score == IF m.i = Absent THEN 0 ELSE Impact_score(m.i)
        a_score == IF m.a = Absent THEN 0 ELSE Impact_score(m.a)
    IN  FxOne - Abs(FxMul(FxMul(FxOne - c_score, FxOne - i_score), FxOne - a_score))

\* The iss_scoped of score(): the impact sub-score scaled for the scope.
iss_scoped(m) ==
    LET iss == impact(m) IN
    IF ~is_scope_changed(m) THEN FxMul(Fx(642, 100), iss)
    ELSE FxMul(Fx(752, 100), iss - Fx(29, 1000))
         - FxMul(Fx(325, 100), FxPow(iss - Fx(2, 100), 15))

\* score() without the .min(10.0) of the changed-scope branch.
score_unclamped(m) ==
    LET raw ==
            IF iss_scoped(m) <= 0 THEN 0
            ELSE IF ~is_scope_changed(m)
            THEN Min(iss_scoped(m) + exploitability(m), Fx(10, 1))
            ELSE FxMul(Fx(108, 100), iss_scoped(m) + exploitability(m))
    IN  Score_roundup(raw)

\* score() with iss_scoped < 0.0 for iss_scoped <= 0.0.
score_strict(m) ==
    LET raw ==
            IF iss_scoped(m) < 0 THEN 0
            ELSE IF ~is_scope_changed(m)
            THEN Min(iss_scoped(m) + exploitability(m), Fx(10, 1))
            ELSE Min(FxMul(Fx(108, 100), iss_scoped(m) + exploitability(m)), Fx(10, 1))
    IN  Score_roundup(raw)

\* Environmental::score
score(m) ==
    LET raw ==
            IF iss_scoped(m) <= 0 THEN 0
            ELSE IF ~is_scope_changed(m)
            THEN Min(iss_scoped(m) + exploitability(m), Fx(10, 1))
            ELSE Min(FxMul(Fx(108, 100), iss_scoped(m) + exploitability(m)), Fx(10, 1))
    IN  Score_roundup(raw)

\* severity() that classifies the exploitability sub-score.
severity_of_exploitability(m) == Score_severity(exploitability(m))

\* Environmental::severity
severity(m) == Score_severity(score(m))

\* The aggregates that are scored: every combination of present and absent
\* values of the eight fields the score methods read.
Aggregates ==
    [minor_version : {0, 1}, rl : {Absent}, e : {Absent},
     av : Option(AttackVector), ac : Option(AttackComplexity),
     pr : Option(PrivilegesRequired), ui : Option(UserInteraction),
     s : Option(Scope), c : Option(ImpactLevels), i : Option(ImpactLevels),
     a : Option(ImpactLevels)]

ScoreIdle ==
    /\ aggregate = Environmental_default /\ scoreOp = "idle"
    /\ exploitabilityOut = 0 /\ impactOut = 0 /\ scoreOut = 0 /\ severityOut = "None"

ScoreInit ==
    /\ aggregate \in Aggregates
    /\ scoreOp = "new"
    /\ exploitabilityOut = 0
    /\ impactOut = 0
    /\ scoreOut = 0
    /\ severityOut = "None"

\* metrics.exploitability()
Exploitability ==
    /\ scoreOp = "new"
    /\ exploitabilityOut' = exploitability(aggregate)
    /\ scoreOp' = "exploitability"
    /\ UNCHANGED <<aggregate, impactOut, scoreOut, severityOut>>
    /\ UNCHANGED scoreOthers

\* metrics.impact()
Impact ==
    /\ scoreOp = "new"
    /\ impactOut' = impact(aggregate)
    /\ scoreOp' = "impact"
    /\ UNCHANGED <<aggregate, exploitabilityOut, scoreOut, severityOut>>
    /\ UNCHANGED scoreOthers

\* metrics.score()
ScoreOf ==
    /\ scoreOp = "new"
    /\ scoreOut' = score(aggregate)
    /\ scoreOp' = "score"
    /\ UNCHANGED <<aggregate, exploitabilityOut, impactOut, severityOut>>
    /\ UNCHANGED scoreOthers

\* metrics.severity()
SeverityOf ==
    /\ scoreOp = "new"
    /\ severityOut' = severity(aggregate)
    /\ scoreOp' = "severity"
    /\ UNCHANGED <<aggregate, exploitabilityOut, impactOut, scoreOut>>
    /\ UNCHANGED scoreOthers

(***************************************************************************)
(* Score rounding on its own: the values of [0, 10] at and around every    *)
(* multiple of 0.1.                                                        *)
(***************************************************************************)
Tenth == FxOne \div 10

RoundInputs ==
    {x \in {n * Tenth + d : n \in 0..100,
                            d \in {0, 1, 1000, Tenth \div 2, Tenth - 1}} :
        x <= Fx(10, 1)}

RoundIdle == roundIn = 0 /\ roundOp = "idle" /\ roundOut = 0 /\ roundTwice = 0

RoundInit ==
    /\ roundIn \in RoundInputs
    /\ roundOp = "new"
    /\ roundOut = 0
    /\ roundTwice = 0

\* Score::new(x).roundup()
Roundup ==
    /\ roundOp = "new"
    /\ roundOut' = Score_roundup(roundIn)
    /\ roundOp' = "once"
    /\ UNCHANGED <<roundIn, roundTwice>>
    /\ UNCHANGED roundOthers

\* Score::new(x).roundup().roundup()
RoundupAgain ==
    /\ roundOp = "once"
    /\ roundTwice' = Score_roundup(roundOut)
    /\ roundOp' = "twice"
    /\ UNCHANGED <<roundIn, roundOut>>
    /\ UNCHANGED roundOthers

(***************************************************************************)
(* The metric value types on their own: trait Metric (score, as_str),      *)
(* FromStr, Default and the derived Ord of ExploitCodeMaturity,            *)
(* AvailabilityRequirement, AttackVector and AttackComplexity.             *)
(***************************************************************************)
ValueTypes ==
    {"ExploitCodeMaturity", "AvailabilityRequirement", "AttackVector", "AttackComplexity"}

\* The variants of a value type, in declaration order.
Levels(type) ==
    CASE type = "ExploitCodeMaturity"     -> ExploitCodeMaturity
      [] type = "AvailabilityRequirement" -> AvailabilityRequirement
      [] type = "AttackVector"            -> AttackVector
      [] type = "AttackComplexity"        -> AttackComplexity

\* const TYPE: MetricType
Metric_TYPE(type) ==
    CASE type = "ExploitCodeMaturity"     -> "E"
      [] type = "AvailabilityRequirement" -> "AR"
      [] type = "AttackVector"            -> "AV"
      [] type = "AttackComplexity"        -> "AC"

\* Metric::score
Metric_score(type, level) ==
    CASE type = "ExploitCodeMaturity"     -> ExploitCodeMaturity_score(level)
      [] type = "AvailabilityRequirement" -> AvailabilityRequirement_score(level)
      [] type = "AttackVector"            -> AttackVector_score(level)
      [] type = "AttackComplexity"        -> AttackComplexity_score(level)

\* Metric::as_str
Metric_as_str(type, level) ==
    CASE type = "ExploitCodeMaturity"     -> ExploitCodeMaturity_as_str(level)
      [] type = "AvailabilityRequirement" -> AvailabilityRequirement_as_str(level)
      [] type = "AttackVector"            -> AttackVector_as_str(level)
      [] type = "AttackComplexity"        -> AttackComplexity_as_str(level)

\* FromStr::from_str
Metric_from_str(type, str) ==
    CASE type = "ExploitCodeMaturity"     -> ExploitCodeMaturity_from_str(str)
      [] type = "AvailabilityRequirement" -> AvailabilityRequirement_from_str(str)
      [] type = "AttackVector"            -> AttackVector_from_str(str)
      [] type = "AttackComplexity"        -> AttackComplexity_from_str(str)

\* Default for ExploitCodeMaturity with the last variant.
ExploitCodeMaturity_default_unproven == "Unproven"

\* impl Default for ExploitCodeMaturity
ExploitCodeMaturity_default == "NotDefined"

\* impl Default for AvailabilityRequirement
AvailabilityRequirement_default == "NotDefined"

\* impl Default for AttackComplexity
AttackComplexity_default == "High"

\* The types that implement Default (v4 AttackVector does not).
DefaultTypes == ValueTypes \ {"AttackVector"}

\* Default::default
Metric_default(type) ==
    CASE type = "ExploitCodeMaturity"     -> ExploitCodeMaturity_default
      [] type = "AvailabilityRequirement" -> AvailabilityRequirement_default
      [] type = "AttackComplexity"        -> AttackComplexity_default

\* The discriminant of a variant: its position in the declaration.
Discriminant(type, level) == CHOOSE n \in DOMAIN Levels(type) : Levels(type)[n] = level

\* #[derive(PartialOrd, Ord)]: a < b compares the discriminants.
Metric_lt(type, a, b) == Discriminant(type, a) < Discriminant(type, b)

(***************************************************************************)
(* The Temporal score group (v3/temporal.rs) is not part of the sources at *)
(* hand.  As the specification has it, the Temporal score scales the Base  *)
(* score by the weight of E, an absent E standing for its default level.   *)
(***************************************************************************)
Temporal_e_score(e) ==
    ExploitCodeMaturity_score(IF e = Absent THEN ExploitCodeMaturity_default ELSE e)

Temporal_scale(base, e) == FxMul(base, Temporal_e_score(e))

\* The texts handed to from_str: every code of every type, and texts that
\* are the code of none.
LetterPool ==
    { <<"X">>, <<"H">>, <<"F">>, <<"P">>, <<"U">>, <<"M">>, <<"L">>, <<"A">>,
      <<"N">>, <<"h">>, <<"x">>, <<"Q">>, <<"H","X">>, <<" ","H">>, <<>> }

\* The Base scores that are scaled.
BaseScores == {Fx(0, 10), Fx(1, 10), Fx(39, 10), Fx(75, 10), Fx(100, 10)}

NoMetric == MetricErr("", <<>>)

ValueIdle ==
    /\ mvType = "ExploitCodeMaturity" /\ mvLevel = "NotDefined" /\ mvOther = "NotDefined"
    /\ mvStr = <<>> /\ mvBase = 0 /\ mvOp = "idle"
    /\ mvText = <<>> /\ mvParsed = NoMetric /\ mvScore = 0 /\ mvLess = FALSE
    /\ mvDefault = Absent /\ mvE = Absent /\ mvScaled = 0

ValueInit ==
    /\ mvType \in ValueTypes
    /\ mvLevel \in Range(Levels(mvType))
    /\ mvOther \in Range(Levels(mvType))
    /\ mvStr \in LetterPool
    /\ mvBase \in BaseScores
    /\ mvOp = "new"
    /\ mvText = <<>> /\ mvParsed = NoMetric /\ mvScore = 0 /\ mvLess = FALSE
    /\ mvDefault = Absent /\ mvE = Absent /\ mvScaled = 0

\* level.as_str()
ValueAsStr ==
    /\ mvOp = "new"
    /\ mvText' = Metric_as_str(mvType, mvLevel)
    /\ mvOp' = "as_str"
    /\ UNCHANGED <<mvType, mvLevel, mvOther, mvStr, mvBase, mvParsed, mvScore,
                   mvLess, mvDefault, mvE, mvScaled>>
    /\ UNCHANGED valueOthers

\* level.as_str().parse()
ValueParseBack ==
    /\ mvOp = "as_str"
    /\ mvParsed' = Metric_from_str(mvType, mvText)
    /\ mvOp' = "parsed_back"
    /\ UNCHANGED <<mvType, mvLevel, mvOther, mvStr, mvBase, mvText, mvScore,
                   mvLess, mvDefault, mvE, mvScaled>>
    /\ UNCHANGED valueOthers

\* str.parse()
ValueFromStr ==
    /\ mvOp = "new"
    /\ mvParsed' = Metric_from_str(mvType, mvStr)
    /\ mvOp' = "from_str"
    /\ UNCHANGED <<mvType, mvLevel, mvOther, mvStr, mvBase, mvText, mvScore,
                   mvLess, mvDefault, mvE, mvScaled>>
    /\ UNCHANGED valueOthers

\* level.score()
ValueScore ==
    /\ mvOp = "new"
    /\ mvScore' = Metric_score(mvType, mvLevel)
    /\ mvOp' = "score"
    /\ UNCHANGED <<mvType, mvLevel, mvOther, mvStr, mvBase, mvText, mvParsed,
                   mvLess, mvDefault, mvE, mvScaled>>
    /\ UNCHANGED valueOthers

\* level < other
ValueCmp ==
    /\ mvOp = "new"
    /\ mvLess' = Metric_lt(mvType, mvLevel, mvOther)
    /\ mvOp' = "cmp"
    /\ UNCHANGED <<mvType, mvLevel, mvOther, mvStr, mvBase, mvText, mvParsed,
                   mvScore, mvDefault, mvE, mvScaled>>
    /\ UNCHANGED valueOthers

\* Default::default()
ValueDefault ==
    /\ mvOp = "new"
    /\ mvType \in DefaultTypes
    /\ mvDefault' = Metric_default(mvType)
    /\ mvOp' = "default"
    /\ UNCHANGED <<mvType, mvLevel, mvOther, mvStr, mvBase, mvText, mvParsed,
                   mvScore, mvLess, mvE, mvScaled>>
    /\ UNCHANGED valueOthers

\* The Base score mvBase scaled by the weight of an E that is absent or at
\* one of its levels.
TemporalScale ==
    /\ mvOp = "new"
    /\ mvType = "ExploitCodeMaturity"
    /\ \E e \in {Absent, mvLevel} :
           /\ mvE' = e
           /\ mvScaled' = Temporal_scale(mvBase, e)
    /\ mvOp' = "scaled"
    /\ UNCHANGED <<mvType, mvLevel, mvOther, mvStr, mvBase, mvText, mvParsed,
                   mvScore, mvLess, mvDefault>>
    /\ UNCHANGED valueOthers

(***************************************************************************)
(* The advisory updater: admin/src/updater.rs.  update_advisories walks    *)
(* the advisories of the database; for each it asks the NVD API about      *)
(* every CVE id (fetch_cve), then reports broken aliases, missing          *)
(* references, new GHSA aliases and the state of the cvss field.  One      *)
(* action per answer of the API; the rest of the loop body is one action.  *)
(* An Id, a Url and a cvss::v3::Base are known by their text.              *)
(***************************************************************************)
MaxAdvisories == 2
MaxAliases == 1
MaxRefs == 1

NVD_API_SLEEP_MS == 200

AdvisoryIds == {"RUSTSEC-2020-0001", "CVE-2020-0001"}
AliasIds == {"CVE-2020-0001", "CVE-2020-0002", "GHSA-aaaa-bbbb-cccc"}

\* rustsec::advisory::id::Kind of an id (crate rustsec is not part of the
\* sources at hand): the kind its prefix names.
Id_kind(id) ==
    CASE id \in {"CVE-2020-0001", "CVE-2020-0002"} -> "CVE"
      [] id = "GHSA-aaaa-bbbb-cccc"                -> "GHSA"
      [] id = "RUSTSEC-2020-0001"                  -> "RUSTSEC"

\* The cvss::v3::Base values NVD answers with.
Vectors == {"CVSS:3.1/AV:N/AC:L/PR:N/UI:N/S:U/C:H/I:H/A:H",
            "CVSS:3.1/AV:L/AC:L/PR:N/UI:N/S:U/C:L/I:N/A:N"}
OwnVector == "CVSS:3.1/AV:N/AC:L/PR:N/UI:N/S:U/C:H/I:H/A:H"

\* A reference URL as the references loop sees it: its text, whether it
\* contains "rustsec", "https://crates.io", "RustSec" or "RUSTSEC-", the
\* byte index of its first "GHSA-" (-1: none), its length in bytes, and the
\* 19 bytes from that index on when there are that many.
KnownUrl ==
    [name |-> "https://example.com/fix", filtered |-> FALSE,
     begin |-> -1, len |-> 23, ghsa |-> ""]
HomeUrl ==
    [name |-> "https://example.com/", filtered |-> FALSE,
     begin |-> -1, len |-> 20, ghsa |-> ""]
RustsecUrl ==
    [name |-> "https://rustsec.org/advisories/RUSTSEC-2020-0001.html", filtered |-> TRUE,
     begin |-> -1, len |-> 53, ghsa |-> ""]
GhsaUrl ==
    [name |-> "https://github.com/advisories/GHSA-aaaa-bbbb-cccc", filtered |-> FALSE,
     begin |-> 30, len |-> 49, ghsa |-> "GHSA-aaaa-bbbb-cccc"]
ShortGhsaUrl ==
    [name |-> "https://github.com/advisories/GHSA-aaaa", filtered |-> FALSE,
     begin |-> 30, len |-> 39, ghsa |-> ""]

UrlPool == {KnownUrl, HomeUrl, RustsecUrl, GhsaUrl, ShortGhsaUrl}

\* The reference lists of one NVD answer.
RefLists == UNION {[1..n -> UrlPool] : n \in 0..MaxRefs}

\* The advisories of the database: metadata id, aliases, cvss, references, url.
AliasLists == UNION {[1..n -> AliasIds] : n \in 0..MaxAliases}

AdvisoryPool ==
    [id : AdvisoryIds,
     aliases : AliasLists,
     cvss : {Absent, OwnVector},
     references : {<<>>, <<KnownUrl.name>>},
     url : {Absent, HomeUrl.name}]

NoAdvisory ==
    [id |-> "", aliases |-> <<>>, cvss |-> Absent, references |-> <<>>, url |-> Absent]

\* A line on stdout.
Line(kind, id, arg, n) == [kind |-> kind, id |-> id, arg |-> arg, n |-> n]

\* metadata.aliases.iter().chain(once(&advisory_id)).filter(kind == CVE)
SelectSeqCVE(ids) == SelectSeq(ids, LAMBDA id : Id_kind(id) = "CVE")
CveIds(adv) == SelectSeqCVE(adv.aliases \o <<adv.id>>)

\* for broken_alias in broken_cve_aliases { println!("Broken alias ...") }
BrokenLines(adv, broken) ==
    [n \in DOMAIN broken |-> Line("Broken alias", adv.id, broken[n], 0)]

\* The references loop: a filtered URL is skipped; a URL with "GHSA-" gives
\* the slice [begin, begin + 19), which panics when the URL ends before
\* begin + 19; any other URL is reported unless the advisory's references
\* or its url hold it.
RECURSIVE ReferencesLoop(_, _, _, _)
ReferencesLoop(adv, refs, lines, ghsa_ids) ==
    IF refs = <<>> THEN [panic |-> FALSE, lines |-> lines, ghsa_ids |-> ghsa_ids]
    ELSE
        LET reference == Head(refs) IN
        IF reference.filtered THEN ReferencesLoop(adv, Tail(refs), lines, ghsa_ids)
        ELSE IF reference.begin >= 0 THEN
            IF reference.begin + 19 > reference.len
            THEN [panic |-> TRUE, lines |-> lines, ghsa_ids |-> ghsa_ids]
            ELSE ReferencesLoop(adv, Tail(refs), lines, Append(ghsa_ids, reference.ghsa))
        ELSE
            LET complete_references ==
                    adv.references \o (IF adv.url = Absent THEN <<>> ELSE <<adv.url>>)
            IN  IF reference.name \in Range(complete_references)
                THEN ReferencesLoop(adv, Tail(refs), lines, ghsa_ids)
                ELSE ReferencesLoop(adv, Tail(refs),
                         Append(lines, Line("Missing reference", adv.id, reference.name, 0)),
                         ghsa_ids)

\* for ghsa_id in ghsa_ids { if !aliases.contains(&ghsa_id) { println!("New ...") } }
RECURSIVE NewAliasLines(_, _)
NewAliasLines(adv, ghsa_ids) ==
    IF ghsa_ids = <<>> THEN <<>>
    ELSE (IF Head(ghsa_ids) \in Range(adv.aliases) THEN <<>>
          ELSE <<Line("New alias", adv.id, Head(ghsa_ids), 0)>>)
         \o NewAliasLines(adv, Tail(ghsa_ids))

\* if nvd_scores.len() == 1 { .. } else if nvd_scores.len() > 1 { .. }
CvssLines(adv, scores) ==
    IF Cardinality(scores) = 1 THEN
        LET nvd_score == CHOOSE v \in scores : TRUE IN
        IF adv.cvss # Absent THEN
            IF adv.cvss # nvd_score
            THEN <<Line("Potential cvss update", adv.id, nvd_score, 0)>>
            ELSE <<>>
        ELSE <<Line("Add cvss", adv.id, nvd_score, 0)>>
    ELSE IF Cardinality(scores) > 1
    THEN <<Line("Inconsistency", adv.id, "", Cardinality(scores))>>
    ELSE <<>>

UpdaterIdle ==
    /\ upc = "idle" /\ status = "" /\ remaining = 0 /\ advisory = NoAdvisory
    /\ cve_ids = <<>> /\ idx = 0 /\ nvd_scores = {} /\ references = <<>>
    /\ broken_cve_aliases = <<>> /\ printed = <<>> /\ requested = <<>>
    /\ answers = <<>> /\ failed = FALSE
    /\ sleptMs = -1 /\ lastGap = -1 /\ panicAt = ""

UpdaterInit ==
    /\ upc = "start" /\ status = "" /\ remaining = 0 /\ advisory = NoAdvisory
    /\ cve_ids = <<>> /\ idx = 0 /\ nvd_scores = {} /\ references = <<>>
    /\ broken_cve_aliases = <<>> /\ printed = <<>> /\ requested = <<>>
    /\ answers = <<>> /\ failed = FALSE
    /\ sleptMs = -1 /\ lastGap = -1 /\ panicAt = ""

perAdvisory ==
    <<advisory, cve_ids, idx, nvd_scores, references, broken_cve_aliases, printed,
      requested, answers>>

\* Database::open fails: status_err!, exit(1)
OpenFails ==
    /\ upc = "start"
    /\ status' = "couldn't open advisory DB repo"
    /\ upc' = "exit"
    /\ UNCHANGED <<remaining, perAdvisory, failed, sleptMs, lastGap, panicAt>>
    /\ UNCHANGED updaterOthers

\* Database::open gives a database of n advisories: exit(1) when there is
\* none, else the "Loaded" status in human readable mode and the loop.
Open ==
    /\ upc = "start"
    /\ \E n \in 0..MaxAdvisories, output_mode \in {"HumanReadable", "GithubAction"} :
           IF n = 0
           THEN /\ status' = "no advisories found!"
                /\ upc' = "exit"
                /\ UNCHANGED remaining
           ELSE /\ status' = (IF output_mode = "HumanReadable" THEN "Loaded" ELSE "")
                /\ upc' = "loop"
                /\ remaining' = n
    /\ UNCHANGED <<perAdvisory, failed, sleptMs, lastGap, panicAt>>
    /\ UNCHANGED updaterOthers

\* The head of the loop body for the next advisory: its CVE ids, and empty
\* nvd_scores, references and broken_cve_aliases.
NextAdvisory ==
    /\ upc = "loop" /\ remaining > 0
    /\ \E adv \in AdvisoryPool :
           /\ advisory' = adv
           /\ cve_ids' = CveIds(adv)
    /\ remaining' = remaining - 1
    /\ idx' = 1
    /\ nvd_scores' = {} /\ references' = <<>> /\ broken_cve_aliases' = <<>>
    /\ printed' = <<>> /\ requested' = <<>> /\ answers' = <<>>
    /\ upc' = "fetch"
    /\ UNCHANGED <<status, failed, sleptMs, lastGap, panicAt>>
    /\ UNCHANGED updaterOthers

\* An answer of the NVD API as fetch_cve meets it: how far fetch_cve gets
\* with it, and the vector and the reference URLs it holds.
Answer(outcome, cvss, urls) == [outcome |-> outcome, cvss |-> cvss, urls |-> urls]

\* What every fetch_cve does first: the request is sent.  lastGap is the
\* time slept since the request before it.
Request ==
    /\ upc = "fetch" /\ idx <= Len(cve_ids)
    /\ requested' = Append(requested, cve_ids[idx])
    /\ lastGap' = sleptMs
    /\ idx' = idx + 1

\* call() fails: fetch_cve returns Err(()), the id is a broken alias.
FetchCallFails ==
    /\ Request
    /\ answers' = Append(answers, Answer("call failed", Absent, <<>>))
    /\ failed' = TRUE
    /\ broken_cve_aliases' = Append(broken_cve_aliases, cve_ids[idx])
    /\ sleptMs' = 0
    /\ UNCHANGED <<upc, status, remaining, advisory, cve_ids, nvd_scores, references,
                   printed, panicAt>>
    /\ UNCHANGED updaterOthers

\* The answer has status 404: fetch_cve returns Ok(None).
FetchNotFound ==
    /\ Request
    /\ answers' = Append(answers, Answer("status 404", Absent, <<>>))
    /\ UNCHANGED failed
    /\ sleptMs' = 0
    /\ UNCHANGED <<upc, status, remaining, advisory, cve_ids, nvd_scores, references,
                   broken_cve_aliases, printed, panicAt>>
    /\ UNCHANGED updaterOthers

\* into_string() fails: fetch_cve returns Err(()), the id is a broken alias.
FetchBodyUnreadable ==
    /\ Request
    /\ answers' = Append(answers, Answer("body unreadable", Absent, <<>>))
    /\ failed' = TRUE
    /\ broken_cve_aliases' = Append(broken_cve_aliases, cve_ids[idx])
    /\ sleptMs' = 0
    /\ UNCHANGED <<upc, status, remaining, advisory, cve_ids, nvd_scores, references,
                   printed, panicAt>>
    /\ UNCHANGED updaterOthers

\* The body is not JSON, or holds no reference_data array, or a reference
\* without a url text, or a url that Url::parse refuses: unwrap() panics.
FetchPanics ==
    /\ Request
    /\ \E cause \in {"serde_json::from_str", "as_array", "as_str", "Url::parse"} :
           panicAt' = cause
    /\ answers' = Append(answers, Answer("body malformed", Absent, <<>>))
    /\ UNCHANGED failed
    /\ upc' = "panicked"
    /\ sleptMs' = 0
    /\ UNCHANGED <<status, remaining, advisory, cve_ids, nvd_scores, references,
                   broken_cve_aliases, printed>>
    /\ UNCHANGED updaterOthers

\* The answer is read: fetch_cve sleeps and returns Ok(Some(CveInfo)); its
\* cvss, when there is one, joins nvd_scores and its references are appended.
FetchOk ==
    /\ Request
    /\ \E cvss \in {Absent} \cup Vectors, nvd_references \in RefLists :
           /\ nvd_scores' = (IF cvss = Absent THEN nvd_scores ELSE nvd_scores \cup {cvss})
           /\ references' = references \o nvd_references
           /\ answers' = Append(answers, Answer("read", cvss, nvd_references))
    /\ UNCHANGED failed
    /\ sleptMs' = NVD_API_SLEEP_MS
    /\ UNCHANGED <<upc, status, remaining, advisory, cve_ids, broken_cve_aliases,
                   printed, panicAt>>
    /\ UNCHANGED updaterOthers

\* The rest of the loop body, once every CVE id is fetched: the broken
\* aliases, the references loop, the new aliases and the cvss report.
Report ==
    /\ upc = "fetch" /\ idx > Len(cve_ids)
    /\ LET broken == BrokenLines(advisory, broken_cve_aliases)
           loop == ReferencesLoop(advisory, references, <<>>, <<>>)
       IN  IF loop.panic
           THEN /\ printed' = printed \o broken \o loop.lines
                /\ panicAt' = "references"
                /\ upc' = "panicked"
           ELSE /\ printed' = printed \o broken \o loop.lines
                                \o NewAliasLines(advisory, loop.ghsa_ids)
                                \o CvssLines(advisory, nvd_scores)
                /\ panicAt' = panicAt
                /\ upc' = "loop"
    /\ UNCHANGED <<status, remaining, advisory, cve_ids, idx, nvd_scores, references,
                   broken_cve_aliases, requested, answers, failed, sleptMs, lastGap>>
    /\ UNCHANGED updaterOthers

\* The loop ends: update_advisories returns.
Return ==
    /\ upc = "loop" /\ remaining = 0
    /\ upc' = "done"
    /\ UNCHANGED <<status, remaining, perAdvisory, failed, sleptMs, lastGap, panicAt>>
    /\ UNCHANGED updaterOthers

(***************************************************************************)
(* Specifications, one per component.                                      *)
(***************************************************************************)
InitRegistry == RegistryInit /\ CodecIdle /\ ScoreIdle /\ RoundIdle /\ ValueIdle /\ UpdaterIdle
NextRegistry == Name \/ ParseName \/ ParseStr
SpecRegistry == InitRegistry /\ [][NextRegistry]_vars

InitCodec == CodecInit /\ RegistryIdle /\ ScoreIdle /\ RoundIdle /\ ValueIdle /\ UpdaterIdle
NextCodec == FromStr \/ Display \/ Reparse
SpecCodec == InitCodec /\ [][NextCodec]_vars

InitScore == ScoreInit /\ RegistryIdle /\ CodecIdle /\ RoundIdle /\ ValueIdle /\ UpdaterIdle
NextScore == Exploitability \/ Impact \/ ScoreOf \/ SeverityOf
SpecScore == InitScore /\ [][NextScore]_vars

InitRound == RoundInit /\ RegistryIdle /\ CodecIdle /\ ScoreIdle /\ ValueIdle /\ UpdaterIdle
NextRound == Roundup \/ RoundupAgain
SpecRound == InitRound /\ [][NextRound]_vars

InitValue == ValueInit /\ RegistryIdle /\ CodecIdle /\ ScoreIdle /\ RoundIdle /\ UpdaterIdle
NextValue ==
    \/ ValueAsStr \/ ValueParseBack \/ ValueFromStr \/ ValueScore
    \/ ValueCmp \/ ValueDefault \/ TemporalScale
SpecValue == InitValue /\ [][NextValue]_vars

InitUpdater ==
    UpdaterInit /\ RegistryIdle /\ CodecIdle /\ ScoreIdle /\ RoundIdle /\ ValueIdle
NextUpdater ==
    \/ OpenFails \/ Open \/ NextAdvisory
    \/ FetchCallFails \/ FetchNotFound \/ FetchBodyUnreadable \/ FetchPanics \/ FetchOk
    \/ Report \/ Return
SpecUpdater == InitUpdater /\ [][NextUpdater]_vars

(***************************************************************************)
(* Properties of the registry and of the codec.                            *)
(***************************************************************************)
Components(str) == split(str, "/")
AllComponentsOk(str) == \A n \in DOMAIN Components(str) : ComponentOk(Components(str)[n])
HeaderId(str) == split(Components(str)[1], ":")[1]
HeaderVersion(str) ==
    LET parts == split(Components(str)[1], ":") IN
    IF Len(parts) >= 2 THEN parts[2] ELSE <<>>
HeaderValid(str) ==
    /\ HeaderId(str) = PREFIX
    /\ HeaderVersion(str) \in {<<"3",".","0">>, <<"3",".","1">>}

\* The metric ids a vector string names after its header, upper-cased.
MetricIds(str) ==
    {to_ascii_uppercase(split(Components(str)[n], ":")[1]) :
        n \in 2..Len(Components(str))}

Mandatory == {"AV", "AC", "PR", "UI", "S", "C", "I", "A"}
MandatoryFields == {"av", "ac", "pr", "ui", "s", "c", "i", "a"}
LacksMandatory(str) == \E k \in Mandatory : MetricType_name(k) \notin MetricIds(str)

\* C1: the registry is a bijection between kinds and acronyms: parsing
\* name(k) gives Ok(k) for every kind k, two distinct kinds never share an
\* acronym, and an acronym that parses is the name of the kind it parses to.
C1_RegistryBijection ==
    /\ regOp = "parsed_name" => regParsed = KindOk(regKind)
    /\ regOp = "name" =>
           \A k \in MetricTypes : k # regKind => MetricType_name(k) # regName
    /\ regOp = "parsed_str" /\ regParsed.ok =>
           MetricType_name(regParsed.kind) = regStr

\* C2: a vector string that parses into an aggregate a round-trips:
\* parse(to_string(a)) succeeds and equals a.
C2_RoundTrip ==
    codecOp = "reparsed" => reparsed.ok /\ reparsed.val = parsed.val

\* C3: a vector string with a valid header whose components are all accepted
\* and that lacks one of the eight mandatory metrics fails with
\* MissingMandatoryMetric; no parse returns an aggregate with one of the
\* eight absent.
C3_MissingMandatoryRejected ==
    codecOp # "new" =>
        /\ parsed.ok => \A f \in MandatoryFields : parsed.val[f] # Absent
        /\ HeaderValid(input) /\ AllComponentsOk(input) /\ LacksMandatory(input)
           /\ parsed.err \notin {"UnknownMetric", "InvalidMetric", "NoMatchArm"}
             => ~parsed.ok /\ parsed.err = "MissingMandatoryMetric"

\* The header rule of C10 on the result of from_str(input).
HeaderRule ==
    IF HeaderId(input) # PREFIX
    THEN ~parsed.ok /\ parsed.err = "InvalidPrefix"
    ELSE IF HeaderVersion(input) \notin {<<"3",".","0">>, <<"3",".","1">>}
    THEN ~parsed.ok /\ parsed.err = "UnsupportedVersion"
    ELSE parsed.ok =>
             parsed.val.minor_version =
                 (IF HeaderVersion(input) = <<"3",".","0">> THEN 0 ELSE 1)

\* C10 as stated: whatever the other components are, a first component whose
\* id is not "CVSS" gives InvalidPrefix, else a version other than 3.0 and 3.1
\* gives UnsupportedVersion, else minor_version is 0 for 3.0 and 1 for 3.1.
C10_HeaderFirst == codecOp # "new" => HeaderRule

\* C10 as amended: the header rule holds of every vector string whose
\* components all hold exactly one ':'.
C10_HeaderAfterSplit ==
    codecOp # "new" /\ AllComponentsOk(input) => HeaderRule

\* C10's case: a header with a wrong id, followed by a well-formed component
\* the registry would reject, is refused for its prefix.
C10_Witness ==
    /\ codecOp = "parsed"
    /\ AllComponentsOk(input)
    /\ HeaderId(input) # PREFIX
    /\ <<"Z","Z">> \in MetricIds(input)
    /\ parsed.err = "InvalidPrefix"

(***************************************************************************)
(* Properties of the score engine.                                         *)
(***************************************************************************)
Requirements == Range(AvailabilityRequirement)

\* The modified impact sub-score of section 4.5 for the impact weights c, i, a
\* and the requirement weights cr, ir, ar:
\* min(1, 1 - (1 - c*cr)(1 - i*ir)(1 - a*ar)).
ModifiedImpact(c, i, a, cr, ir, ar) ==
    Min(FxOne,
        FxOne - FxMul(FxMul(FxOne - FxMul(c, cr), FxOne - FxMul(i, ir)),
                      FxOne - FxMul(a, ar)))

\* C4: impact() of an aggregate whose C, I and A are present is the modified
\* impact sub-score under the requirement levels CR, IR and AR (which share
\* the weights of AvailabilityRequirement), whatever these levels are, and
\* never exceeds 1.
C4_ImpactUsesRequirements ==
    scoreOp = "impact"
    /\ aggregate.c # Absent /\ aggregate.i # Absent /\ aggregate.a # Absent
      => /\ impactOut <= FxOne
         /\ \A cr \in Requirements, ir \in Requirements, ar \in Requirements :
               impactOut =
                   ModifiedImpact(Impact_score(aggregate.c), Impact_score(aggregate.i),
                                  Impact_score(aggregate.a),
                                  AvailabilityRequirement_score(cr),
                                  AvailabilityRequirement_score(ir),
                                  AvailabilityRequirement_score(ar))

\* Base aggregates an Environmental aggregate modifies: the reference vectors
\* AV:N/AC:L/PR:N/UI:N/S:U/C:H/I:H/A:H, AV:N/AC:L/PR:N/UI:R/S:C/C:H/I:H/A:H
\* and AV:P/AC:H/PR:H/UI:R/S:U/C:N/I:N/A:L.
BaseVectors ==
    { [av |-> "Network", ac |-> "Low", pr |-> "None", ui |-> "None",
       s |-> "Unchanged", c |-> "High", i |-> "High", a |-> "High"],
      [av |-> "Network", ac |-> "Low", pr |-> "None", ui |-> "Required",
       s |-> "Changed", c |-> "High", i |-> "High", a |-> "High"],
      [av |-> "Physical", ac |-> "High", pr |-> "High", ui |-> "Required",
       s |-> "Unchanged", c |-> "None", i |-> "None", a |-> "Low"] }

\* The aggregate m with every absent metric taken from the Base aggregate b.
Superseding(m, b) ==
    [f \in DOMAIN m |->
        IF f \in MandatoryFields /\ m[f] = Absent THEN b[f] ELSE m[f]]

\* C5: exploitability() and impact() score an absent metric with the weight
\* of the Base metric of the same kind and a present one with its own weight:
\* the result is that of the aggregate with the Base values filled in, for
\* every Base aggregate.
C5_AbsentScoredAsBase ==
    \A b \in BaseVectors :
        /\ scoreOp = "exploitability" =>
               exploitabilityOut = exploitability(Superseding(aggregate, b))
        /\ scoreOp = "impact" => impactOut = impact(Superseding(aggregate, b))

\* C6: score() of every aggregate lies in [0.0, 10.0] and is a multiple of 0.1.
C6_ScoreInRange ==
    scoreOp = "score" =>
        /\ 0 <= scoreOut
        /\ scoreOut <= Fx(10, 1)
        /\ scoreOut % Tenth = 0

\* C6's case: a changed-scope aggregate with an absent metric whose combined
\* value exceeds 10 before the clamp.
C6_Witness ==
    /\ scoreOp = "score"
    /\ aggregate.s = "Changed"
    /\ aggregate.c = Absent
    /\ FxMul(Fx(108, 100), iss_scoped(aggregate) + exploitability(aggregate)) > Fx(10, 1)
    /\ scoreOut = Fx(10, 1)

\* The scaled impact of C7: 6.42 x ISS for an unchanged scope,
\* 7.52 x (ISS - 0.029) - 3.25 x (ISS - 0.02)^15 for a changed one.
ScaledImpact(iss, changed) ==
    IF changed
    THEN FxMul(Fx(752, 100), iss - Fx(29, 1000))
         - FxMul(Fx(325, 100), FxPow(iss - Fx(2, 100), 15))
    ELSE FxMul(Fx(642, 100), iss)

\* C7: score() is 0.0 when the scaled impact is <= 0, whatever the
\* exploitability; otherwise roundup(min(10, scaled + exploitability)) for an
\* unchanged scope and roundup(min(10, 1.08 x (scaled + exploitability))) for
\* a changed one.
C7_ScoreFormula ==
    scoreOp = "score" =>
        LET changed == aggregate.s = "Changed"
            scaled == ScaledImpact(impact(aggregate), changed)
            sum == scaled + exploitability(aggregate)
        IN  IF scaled <= 0 THEN scoreOut = 0
            ELSE IF changed
            THEN scoreOut = Score_roundup(Min(Fx(10, 1), FxMul(Fx(108, 100), sum)))
            ELSE scoreOut = Score_roundup(Min(Fx(10, 1), sum))

\* C7's case: a scaled impact that is not positive, a positive
\* exploitability, and a score of 0.0.
C7_Witness ==
    /\ scoreOp = "score"
    /\ ScaledImpact(impact(aggregate), aggregate.s = "Changed") <= 0
    /\ exploitability(aggregate) > 0
    /\ scoreOut = 0

\* C8: roundup(x) is the smallest multiple of 0.1 that is not below x:
\* roundup(x) >= x, roundup(x) - x < 0.1, a multiple of 0.1 is returned
\* unchanged, and roundup(roundup(x)) = roundup(x).
C8_RoundUp ==
    /\ roundOp \in {"once", "twice"} =>
           /\ roundOut >= roundIn
           /\ roundOut - roundIn < Tenth
           /\ roundOut % Tenth = 0
           /\ roundIn % Tenth = 0 => roundOut = roundIn
    /\ roundOp = "twice" => roundTwice = roundOut

\* C8's case: a value just above a multiple of 0.1 is rounded up to the next
\* multiple, and rounding that again changes nothing.
C8_Witness ==
    /\ roundOp = "twice"
    /\ roundIn % Tenth = 1
    /\ roundOut = roundIn - 1 + Tenth
    /\ roundTwice = roundOut

\* The rating of a one-decimal score given in tenths, by the thresholds of
\* C9, with the ratings numbered None 0 .. Critical 4.
Rating(tenths) ==
    IF tenths = 0 THEN 0
    ELSE IF tenths <= 39 THEN 1
    ELSE IF tenths <= 69 THEN 2
    ELSE IF tenths <= 89 THEN 3
    ELSE 4

RatingOf(label) ==
    CASE label = "None" -> 0
      [] label = "Low" -> 1
      [] label = "Medium" -> 2
      [] label = "High" -> 3
      [] label = "Critical" -> 4

\* C9: severity() of an aggregate is the rating of its score() by the
\* thresholds 0.0 None, 0.1-3.9 Low, 4.0-6.9 Medium, 7.0-8.9 High, 9.0-10.0
\* Critical; the classification is monotone over the one-decimal scores.
C9_SeverityOfScore ==
    scoreOp = "severity" =>
        LET tenths == score(aggregate) \div Tenth IN
        /\ RatingOf(severityOut) = Rating(tenths)
        /\ \A n \in 0..100 :
               /\ RatingOf(Score_severity(n * Tenth)) = Rating(n)
               /\ n <= tenths => RatingOf(Score_severity(n * Tenth)) <= RatingOf(severityOut)
               /\ n >= tenths => RatingOf(Score_severity(n * Tenth)) >= RatingOf(severityOut)

\* C9's case: an aggregate whose score is exactly 7.0 is rated High.
C9_Witness ==
    /\ scoreOp = "severity"
    /\ score(aggregate) = Fx(70, 10)
    /\ severityOut = "High"

(***************************************************************************)
(* Properties of component splitting and of registry parsing.              *)
(***************************************************************************)
\* The number of ':' in a text.
Colons(str) == Cardinality({n \in DOMAIN str : str[n] = ":"})

\* The positions of the components of str that do not hold exactly one ':'.
Malformed(str) == {n \in DOMAIN Components(str) : Colons(Components(str)[n]) # 1}

\* C11: a vector string one of whose '/'-separated components (the first and
\* the empty ones included) does not hold exactly one ':' fails with
\* InvalidComponent carrying the text of such a component (the first of
\* them), and no aggregate is returned.
C11_InvalidComponent ==
    codecOp # "new" /\ Malformed(input) # {} =>
        /\ ~parsed.ok
        /\ parsed.err = "InvalidComponent"
        /\ parsed.payload =
               Components(input)[CHOOSE n \in Malformed(input) :
                                     \A m \in Malformed(input) : n <= m]

\* C11's case: a valid header, a metric, and a component with two ':'.
C11_Witness ==
    /\ codecOp = "parsed"
    /\ HeaderValid(input)
    /\ Len(Components(input)) = 3
    /\ Colons(Components(input)[2]) = 1
    /\ Colons(Components(input)[3]) = 2
    /\ parsed.err = "InvalidComponent"
    /\ parsed.payload = Components(input)[3]

\* C12: a text that is not one of the 14 upper-case acronyms (a lower-case or
\* mixed-case form, the empty text) yields UnknownMetric naming the text, and
\* never a kind.
C12_ExactAcronyms ==
    regOp = "parsed_str" /\ (\A k \in MetricTypes : MetricType_name(k) # regStr) =>
        /\ ~regParsed.ok
        /\ regParsed.err = "UnknownMetric"
        /\ regParsed.name = regStr

\* C12's case: the lower-case form of an acronym is refused.
C12_Witness ==
    /\ regOp = "parsed_str"
    /\ regStr = <<"a">>
    /\ regParsed = KindErr("UnknownMetric", <<"a">>)

(***************************************************************************)
(* Properties of the metric value types.                                   *)
(***************************************************************************)
\* The levels of a type whose one-letter code is str.
LevelsOfCode(type, str) == {l \in Range(Levels(type)) : Metric_as_str(type, l) = str}

\* C13: for each of the four value types, parse is the exact inverse of the
\* one-letter code: from_str(s) is Ok(v) exactly when s is as_str(v), the
\* codes of a type are pairwise distinct, and every other text gives
\* InvalidMetric with the type's TYPE as metric_type and the text as value.
C13_ParseInverse ==
    /\ mvOp = "from_str" =>
           /\ mvParsed.ok <=> LevelsOfCode(mvType, mvStr) # {}
           /\ mvParsed.ok => LevelsOfCode(mvType, mvStr) = {mvParsed.level}
           /\ ~mvParsed.ok => mvParsed = MetricErr(Metric_TYPE(mvType), mvStr)
    /\ mvOp = "as_str" => LevelsOfCode(mvType, mvText) = {mvLevel}
    /\ mvOp = "parsed_back" => mvParsed = MetricOk(mvLevel)

\* A letter that is a code of ExploitCodeMaturity only is refused by
\* AvailabilityRequirement.
C13_Witness ==
    /\ mvOp = "from_str" /\ mvType = "AvailabilityRequirement" /\ mvStr = <<"F">>
    /\ mvParsed = MetricErr("AR", <<"F">>)

\* C14: the order of a value type agrees with its weights: a < b implies
\* score(a) <= score(b), for all levels a, b of the same type.
C14_OrdAgreesWithWeight ==
    mvOp = "cmp" /\ mvLess =>
        Metric_score(mvType, mvLevel) <= Metric_score(mvType, mvOther)

\* The order and the weights of Attack Vector as published.
AttackVectorOrder == <<"Physical", "Local", "Adjacent", "Network">>
AttackVectorWeights == <<Fx(20, 100), Fx(55, 100), Fx(62, 100), Fx(85, 100)>>
AttackVectorRank(level) == CHOOSE n \in 1..4 : AttackVectorOrder[n] = level

\* C15: Attack Vector is ordered Physical < Local < Adjacent < Network, with
\* the weights 0.20 < 0.55 < 0.62 < 0.85 strictly increasing along that
\* order: a < b exactly when score(a) < score(b).
C15_AttackVectorOrder ==
    mvType = "AttackVector" =>
        /\ mvOp = "cmp" =>
               /\ mvLess <=> AttackVectorRank(mvLevel) < AttackVectorRank(mvOther)
               /\ mvLess <=> AttackVector_score(mvLevel) < AttackVector_score(mvOther)
        /\ mvOp = "score" => mvScore = AttackVectorWeights[AttackVectorRank(mvLevel)]

C15_Witness ==
    /\ mvOp = "cmp" /\ mvType = "AttackVector"
    /\ mvLevel = "Local" /\ mvOther = "Adjacent" /\ mvLess

\* C16: the default Exploit Code Maturity is Not Defined, its weight is 1.0,
\* which is the weight of High and the greatest weight of the type; a Base
\* score scaled by an absent or Not Defined E is the score scaled by E:H,
\* is not below the Base score, and is not below the score scaled by any
\* other level.
C16_NotDefinedIsNeutral ==
    mvType = "ExploitCodeMaturity" =>
        /\ mvOp = "default" => mvDefault = "NotDefined"
        /\ mvOp = "score" =>
               /\ mvLevel \in {"NotDefined", "High"} => mvScore = FxOne
               /\ mvScore <= FxOne
        /\ mvOp = "scaled" /\ mvE \in {Absent, "NotDefined"} =>
               /\ mvScaled = Temporal_scale(mvBase, "High")
               /\ mvScaled >= mvBase
               /\ \A l \in Range(ExploitCodeMaturity) :
                      Temporal_scale(mvBase, l) <= mvScaled

C16_Witness ==
    /\ mvOp = "scaled" /\ mvE = Absent /\ mvBase = Fx(75, 10)
    /\ mvScaled = Fx(75, 10) /\ Temporal_scale(mvBase, "Unproven") < mvScaled

(***************************************************************************)
(* Properties of the codec: canonical text, letter case.                   *)
(***************************************************************************)
\* The eight metrics that are written, in the order they are written in,
\* each with its field, its acronym and the code of its level.
CanonicalOrder(m) ==
    LET Code(level, as_str(_)) == IF level = Absent THEN <<>> ELSE as_str(level) IN
    << <<m.av, <<"A","V">>, Code(m.av, AttackVector_as_str)>>,
       <<m.ac, <<"A","C">>, Code(m.ac, AttackComplexity_as_str)>>,
       <<m.pr, <<"P","R">>, Code(m.pr, PrivilegesRequired_as_str)>>,
       <<m.ui, <<"U","I">>, Code(m.ui, UserInteraction_as_str)>>,
       <<m.s, <<"S">>, Code(m.s, Scope_as_str)>>,
       <<m.c, <<"C">>, Code(m.c, Impact_as_str)>>,
       <<m.i, <<"I">>, Code(m.i, Impact_as_str)>>,
       <<m.a, <<"A">>, Code(m.a, Impact_as_str)>> >>

\* "/<acronym>:<code>" for each of the first n entries that is present.
CanonicalTail(entries, n) ==
    LET Piece(e) == IF e[1] = Absent THEN <<>> ELSE <<"/">> \o e[2] \o <<":">> \o e[3]
        Upto[k \in 0..n] == IF k = 0 THEN <<>> ELSE Upto[k - 1] \o Piece(entries[k])
    IN  Upto[n]

CanonicalText(m) ==
    <<"C","V","S","S",":","3",".">> \o DigitText(m.minor_version)
    \o CanonicalTail(CanonicalOrder(m), 8)

\* The vector strings that carry the components of str after its header in
\* another order.
Reordered(str) ==
    LET cs == Components(str)
        n == Len(cs) - 1
    IN  {Join(<<cs[1]>> \o [k \in 1..n |-> cs[p[k] + 1]], "/") : p \in Permutations(1..n)}

\* C17: to_string emits "CVSS:3.<minor_version>" and then "/<acronym>:<code>"
\* for each present metric in the order AV, AC, PR, UI, S, C, I, A; and two
\* vector strings that carry the same components in different orders parse
\* to equal aggregates and serialize to the same text.
C17_Canonical ==
    /\ codecOp \in {"printed", "reparsed"} => text = CanonicalText(parsed.val)
    /\ codecOp # "new" /\ parsed.ok =>
           \A other \in Reordered(input) :
               LET r == Environmental_from_str(other, missingArm) IN
               /\ r.ok
               /\ r.val = parsed.val
               /\ Environmental_to_string(r.val) = Environmental_to_string(parsed.val)

\* A letter in the other case; every other character is kept.
ToggleCase(ch) ==
    IF \E n \in 1..26 : LowerCase[n] = ch
    THEN UpperCase[CHOOSE n \in 1..26 : LowerCase[n] = ch]
    ELSE IF \E n \in 1..26 : UpperCase[n] = ch
         THEN LowerCase[CHOOSE n \in 1..26 : UpperCase[n] = ch]
         ELSE ch
IsLower(ch) == \E n \in 1..26 : LowerCase[n] = ch
IsUpper(ch) == \E n \in 1..26 : UpperCase[n] = ch

\* The positions of str after its header: those behind the first '/'.
AfterHeader(str) == {n \in DOMAIN str : FindChar(str, "/") # 0 /\ n > FindChar(str, "/")}

\* str with the letters at the positions of set in the other case.
Toggled(str, set) == [n \in DOMAIN str |-> IF n \in set THEN ToggleCase(str[n]) ELSE str[n]]

\* The vector strings got from str by changing the case of letters after
\* the header: of one letter, of all of them, of the upper-case ones, of the
\* lower-case ones.
CaseVariants(str) ==
    {Toggled(str, {n}) : n \in AfterHeader(str)}
    \cup {Toggled(str, AfterHeader(str)),
          Toggled(str, {n \in AfterHeader(str) : IsUpper(str[n])}),
          Toggled(str, {n \in AfterHeader(str) : IsLower(str[n])})}

\* C18: parsing does not depend on the case of the metric ids and value
\* letters after the header: a vector string and one got from it by changing
\* the case of such letters both give the same aggregate or both fail with
\* the same kind of error; and the text to_string emits has no lower-case
\* letter.
C18_CaseInsensitive ==
    /\ codecOp # "new" =>
           \A other \in CaseVariants(input) :
               LET r == Environmental_from_str(other, missingArm) IN
               /\ r.ok = parsed.ok
               /\ r.ok => r.val = parsed.val
               /\ ~r.ok => r.err = parsed.err
    /\ codecOp \in {"printed", "reparsed"} => \A n \in DOMAIN text : ~IsLower(text[n])

C18_Witness ==
    /\ codecOp = "printed"
    /\ input = <<"C","V","S","S",":","3",".","1","/","e",":","f">>
    /\ parsed.ok /\ parsed.val.e = "Functional"
    /\ Environmental_from_str(<<"C","V","S","S",":","3",".","1","/","E",":","F">>,
                              missingArm) = parsed

(***************************************************************************)
(* Properties of the advisory updater.                                     *)
(***************************************************************************)
\* C19: between any two consecutive requests to the NVD API the updater has
\* slept at least NVD_API_SLEEP_MS, whatever the answer to the earlier of
\* the two was.
C19_RateLimited == lastGap = -1 \/ lastGap >= NVD_API_SLEEP_MS

\* The processing of the current advisory is over, every one of its CVE ids
\* fetched: the loop body has run to its end, or has stopped in the
\* references loop.
AdvisoryOver ==
    \/ upc = "loop" /\ advisory # NoAdvisory
    \/ upc = "panicked" /\ panicAt = "references"

\* The lines about cvss among those printed for the current advisory.
CvssPrinted ==
    SelectSeq(printed,
              LAMBDA l : l.kind \in {"Add cvss", "Potential cvss update", "Inconsistency"})

\* What is to be printed about cvss for the vectors S and the advisory adv.
CvssExpected(adv, S) ==
    IF S = {} THEN <<>>
    ELSE IF \E v \in S : S = {v}
    THEN LET v == CHOOSE w \in S : TRUE IN
         IF adv.cvss = v THEN <<>>
         ELSE IF adv.cvss = Absent THEN <<Line("Add cvss", adv.id, v, 0)>>
         ELSE <<Line("Potential cvss update", adv.id, v, 0)>>
    ELSE <<Line("Inconsistency", adv.id, "", Cardinality(S))>>

\* C20: for each advisory, with S the set of distinct vectors got from all
\* its CVE ids, the updater prints nothing about cvss when S is empty or
\* S = {v} and the advisory's cvss is v, "Add cvss" when S = {v} and the
\* advisory has no cvss, "Potential cvss update" when S = {v} and the
\* advisory's cvss is another vector, "Inconsistency" with |S| when S has
\* more than one vector, and nothing else.
C20_CvssReport == AdvisoryOver => CvssPrinted = CvssExpected(advisory, nvd_scores)

\* The answers with which fetch_cve returns Err(()).
FailedOutcomes == {"call failed", "body unreadable"}

\* The ids of the current advisory whose retrieval has failed.
FailedIds == {requested[n] : n \in {k \in DOMAIN answers : answers[k].outcome \in FailedOutcomes}}

\* How many "Broken alias" lines are printed for id.
BrokenCount(id) ==
    Cardinality({n \in DOMAIN printed :
                    printed[n].kind = "Broken alias" /\ printed[n].arg = id})

\* How many requests for id are sent.
RequestCount(id) == Cardinality({n \in DOMAIN requested : requested[n] = id})

\* The vectors and the reference URLs of the answers that are read.
ReadVectors ==
    {answers[n].cvss : n \in {k \in DOMAIN answers : answers[k].outcome = "read"}}
        \ {Absent}
ReadUrls ==
    LET Upto[k \in 0..Len(answers)] ==
            IF k = 0 THEN <<>>
            ELSE Upto[k - 1]
                 \o (IF answers[k].outcome = "read" THEN answers[k].urls ELSE <<>>)
    IN  Upto[Len(answers)]

\* The run is over, or the loop body of the current advisory is.
RunOrAdvisoryOver ==
    \/ upc \in {"done", "panicked"}
    \/ upc = "loop" /\ advisory # NoAdvisory

\* C21: a failed retrieval does not stop the run.  The id is reported once
\* as a broken alias of its advisory and adds no score and no reference;
\* each CVE id of an advisory is requested exactly once; the CVE ids that
\* remain and the later advisories are still processed; an id answered by
\* 404 is not reported as broken and adds nothing either.
C21_FailureDoesNotStop ==
    /\ nvd_scores = ReadVectors /\ references = ReadUrls
    /\ \A id \in Range(requested) : RequestCount(id) = 1
    /\ failed => upc # "panicked"
    /\ RunOrAdvisoryOver =>
           /\ \A id \in Range(cve_ids) : RequestCount(id) = 1
           /\ \A id \in Range(cve_ids) :
                  BrokenCount(id) = (IF id \in FailedIds THEN 1 ELSE 0)

\* C22: nothing NVD answers aborts update_advisories; a reference URL that
\* holds "GHSA-" and is not skipped by the filter gives a GHSA id candidate
\* of 19 characters, however long the URL is behind "GHSA-", and is never
\* reported as a missing reference.
C22_NoAbort ==
    /\ upc # "panicked"
    /\ \A n \in DOMAIN printed :
           printed[n].kind = "Missing reference" =>
               printed[n].arg \notin {u.name : u \in {v \in UrlPool : v.begin >= 0}}

====
